---- MODULE Spec2Model ----
(***************************************************************************)
(* Request lifecycle of the conversation-intelligence dashboard:           *)
(*   App.js        - loading / result / error and the three callbacks      *)
(*   UploadForm.js - inputType / file and the async handleSubmit           *)
(*   api.js        - analyzeFile, the wrapper around fetch                 *)
(* Every call of handleSubmit is a process of its own; it runs up to its   *)
(* first await in one step and is resumed when the awaited promise         *)
(* settles.                                                                *)
(***************************************************************************)
EXTENDS Integers, Sequences, FiniteSets, TLC

\* number of submit events (calls of handleSubmit) explored
MaxSubmits == 2

----------------------------------------------------------------------------
\* JavaScript values

Null == [t |-> "null"]

Undefined == [t |-> "undefined"]

\* a string is the sequence of its non-empty pieces; '' is << >>
Str(s) == [t |-> "string", s |-> s]

Num(n) == [t |-> "number", n |-> n]

\* the number n / d
Frac(n, d) == [t |-> "number", n |-> n, d |-> d]

Bool(b) == [t |-> "boolean", b |-> b]

\* an object: its `error` property (Undefined when absent) and the rest
Obj(e, rest) == [t |-> "object", error |-> e, rest |-> rest]

\* ToBoolean
Truthy(v) ==
    CASE v.t = "null" -> FALSE
      [] v.t = "undefined" -> FALSE
      [] v.t = "string" -> v.s # << >>
      [] v.t = "number" -> v.n # 0
      [] v.t = "boolean" -> v.b
      [] OTHER -> TRUE

\* a || b
Or(a, b) == IF Truthy(a) THEN a ELSE b

\* reading .error of null taken not to throw
HasPropsAlways(v) == TRUE

\* v.error does not throw
HasProps(v) == v.t \notin {"null", "undefined"}

\* v.error, for a v that has properties
ErrorOf(v) == IF v.t = "object" THEN v.error ELSE Undefined

\* the message of the TypeError of reading .error of null
NullReadMessage == Str(<<"Cannot read properties of null (reading 'error')">>)

\* `${n}` of a status code
StatusStr(n) == <<ToString(n)>>

----------------------------------------------------------------------------
\* what the environment may answer

NoFile == "none"

Files == {"a.txt"}

InputTypes == {"text", "audio"}

Statuses == {200, 500}

\* Response.ok
Ok(status) == status >= 200 /\ status <= 299

\* response bodies read as text
Texts == {<< >>, <<"internal error">>}

\* messages of the errors fetch, res.text() and res.json() reject with
ErrMessages == {Str(<< >>), Str(<<"Failed to fetch">>)}

\* bodies that parse as JSON
Payloads ==
    { Null, Num(0),
      Obj(Undefined, "report"),
      Obj(Str(<< >>), "report"),
      Obj(Str(<<"bad input">>), "report"),
      Obj(Num(3), "report") }

----------------------------------------------------------------------------
VARIABLES
    loading,    \* App: useState(false)
    result,     \* App: useState(null)
    error,      \* App: useState(null)
    inputType,  \* UploadForm: useState('text')
    file,       \* UploadForm: useState(null)
    requests,   \* the calls of handleSubmit: where each one is suspended
    fetches,    \* the fetch calls issued, by call of handleSubmit
    calls,      \* the callbacks invoked so far, in order
    uncaught,   \* the calls of handleSubmit that rejected
    data,       \* ResultCard: the data prop
    view        \* ResultCard: what it returned

vars == <<loading, result, error, inputType, file, requests, fetches, calls, uncaught,
          data, view>>

cardVars == <<data, view>>

formVars == <<inputType, file>>

Ids == 1..MaxSubmits

\* the three state cells of App as one value
AppState == [loading |-> loading, result |-> result, error |-> error]

\* onStart forgetting setResult(null)
onStartKeepsResult(app) == [app EXCEPT !.loading = TRUE, !.error = Null]

\* App's onStart
onStart(app) == [loading |-> TRUE, result |-> Null, error |-> Null]

\* onResult ignoring a completion that arrives when nothing is loading
onResultIfLoading(app, res) ==
    IF app.loading THEN [app EXCEPT !.loading = FALSE, !.result = res] ELSE app

\* App's onResult
onResult(app, res) == [app EXCEPT !.loading = FALSE, !.result = res]

\* onError ignoring a completion that arrives when nothing is loading
onErrorIfLoading(app, err) ==
    IF app.loading THEN [app EXCEPT !.loading = FALSE, !.error = err] ELSE app

\* onError forgetting setLoading(false)
onErrorKeepsLoading(app, err) == [app EXCEPT !.error = err]

\* onError also clearing the held report
onErrorClearsResult(app, err) == [loading |-> FALSE, result |-> Null, error |-> err]

\* App's onError
onError(app, err) == [app EXCEPT !.loading = FALSE, !.error = err]

\* one callback invocation applied to App
ApplyCall(app, c) ==
    CASE c.cb = "onStart" -> onStart(app)
      [] c.cb = "onResult" -> onResult(app, c.arg)
      [] c.cb = "onError" -> onError(app, c.arg)

RECURSIVE ApplyCalls(_, _)
ApplyCalls(app, cs) ==
    IF cs = << >> THEN app ELSE ApplyCalls(ApplyCall(app, Head(cs)), Tail(cs))

\* the callbacks cs are invoked by call id of handleSubmit
Invoke(id, cs) ==
    LET app == ApplyCalls(AppState, cs) IN
    /\ loading' = app.loading
    /\ result' = app.result
    /\ error' = app.error
    /\ calls' = calls \o [i \in 1..Len(cs) |-> [cb |-> cs[i].cb, id |-> id, arg |-> cs[i].arg]]

----------------------------------------------------------------------------
\* UploadForm.handleSubmit

ValidationMessage == Str(<<"Please choose a file to upload">>)

\* the file check left out
ValidateAlways(f) == TRUE

\* if (!file)
Validate(f) == f # NoFile

\* the try block with `if (res.error)` invoking nothing
TryBodySilentError(res) ==
    IF ~HasProps(res)
    THEN [throws |-> TRUE, message |-> NullReadMessage, cbs |-> << >>]
    ELSE IF Truthy(ErrorOf(res))
         THEN [throws |-> FALSE, message |-> Undefined, cbs |-> << >>]
         ELSE [throws |-> FALSE, message |-> Undefined,
               cbs |-> <<[cb |-> "onResult", arg |-> res]>>]

\* the try block of handleSubmit once `await analyzeFile(formData)` gave res:
\* the callbacks it invokes, or the error it throws
TryBody(res) ==
    IF ~HasProps(res)
    THEN [throws |-> TRUE, message |-> NullReadMessage, cbs |-> << >>]
    ELSE IF Truthy(ErrorOf(res))
         THEN [throws |-> FALSE, message |-> Undefined,
               cbs |-> <<[cb |-> "onError", arg |-> ErrorOf(res)]>>]
         ELSE [throws |-> FALSE, message |-> Undefined,
               cbs |-> <<[cb |-> "onResult", arg |-> res]>>]

\* try { ... } catch (err) { ... } of handleSubmit: the callbacks invoked and
\* whether an error leaves handleSubmit
Resume(res) ==
    LET b == TryBody(res) IN
    IF b.throws
    THEN [cbs |-> <<[cb |-> "onError", arg |-> Or(b.message, Str(<<"Unknown error">>))]>>,
          escapes |-> FALSE]
    ELSE [cbs |-> b.cbs, escapes |-> FALSE]

\* the request sent a second time
IssueFetchTwice(log, id) == Append(Append(log, id), id)

\* fetch(...) is called for call id
IssueFetch(log, id) == Append(log, id)

\* the catch without its `|| 'Network error'`
CatchAnalyzeNoDefault(msg) == Obj(msg, "none")

\* api.js: the catch of analyzeFile
CatchAnalyze(msg) == Obj(Or(msg, Str(<<"Network error">>)), "none")

\* the message without the response text
ServerErrorNoText(status, text) ==
    Obj(Str(<<"Server returned status ">> \o StatusStr(status)), "none")

\* api.js: the value returned for a response that is not ok
ServerError(status, text) ==
    Obj(Str(<<"Server returned status ">> \o StatusStr(status) \o <<": ">> \o text), "none")

\* api.js: where analyzeFile waits next once fetch resolved with status
AfterFetch(status) == IF ~Ok(status) THEN "text" ELSE "json"

\* no FormData: none was built, or its call of handleSubmit has returned
NoForm == <<>>

\* new FormData() with input_type and file appended
FormData(t, f) == <<<<"input_type", t>>, <<"file", f>>>>

\* the number of the next call of handleSubmit
NextId == Len(requests) + 1

\* the user picks a file, or leaves the picker with none
ChangeFile(f) ==
    /\ f # file
    /\ file' = f
    /\ UNCHANGED <<loading, result, error, inputType, requests, fetches, calls, uncaught,
                   cardVars>>

\* the user picks an input type
ChangeInputType(t) ==
    /\ t # inputType
    /\ inputType' = t
    /\ UNCHANGED <<loading, result, error, file, requests, fetches, calls, uncaught,
                   cardVars>>

\* the form is submitted: handleSubmit up to its first await
Submit ==
    /\ NextId \in Ids
    /\ IF ~Validate(file)
       THEN /\ Invoke(NextId, <<[cb |-> "onError", arg |-> ValidationMessage]>>)
            /\ requests' = Append(requests, [pc |-> "invalid", status |-> 0,
                                             file |-> file, formData |-> NoForm])
            /\ UNCHANGED fetches
       ELSE /\ Invoke(NextId, <<[cb |-> "onStart", arg |-> Undefined]>>)
            /\ requests' = Append(requests, [pc |-> "fetch", status |-> 0,
                                             file |-> file, formData |-> FormData(inputType, file)])
            /\ fetches' = IssueFetch(fetches, NextId)
    /\ UNCHANGED <<formVars, uncaught, cardVars>>

\* analyzeFile returned res to call id: handleSubmit runs to its end
Settle(id, res) ==
    /\ requests' = [requests EXCEPT ![id].pc = "done", ![id].status = 0,
                                    ![id].formData = NoForm]
    /\ Invoke(id, Resume(res).cbs)
    /\ uncaught' = IF Resume(res).escapes THEN uncaught \cup {id} ELSE uncaught
    /\ UNCHANGED <<formVars, fetches, cardVars>>

\* fetch rejects
FetchRejects(id, msg) ==
    /\ id \in DOMAIN requests
    /\ requests[id].pc = "fetch"
    /\ Settle(id, CatchAnalyze(msg))

\* fetch resolves with a response
FetchResolves(id, status) ==
    /\ id \in DOMAIN requests
    /\ requests[id].pc = "fetch"
    /\ requests' = [requests EXCEPT ![id].pc = AfterFetch(status), ![id].status = status]
    /\ UNCHANGED <<loading, result, error, formVars, fetches, calls, uncaught, cardVars>>

\* res.text() resolves
TextResolves(id, text) ==
    /\ id \in DOMAIN requests
    /\ requests[id].pc = "text"
    /\ Settle(id, ServerError(requests[id].status, text))

\* res.json() resolves
JsonResolves(id, payload) ==
    /\ id \in DOMAIN requests
    /\ requests[id].pc = "json"
    /\ Settle(id, payload)

\* res.text() or res.json() rejects
BodyRejects(id, msg) ==
    /\ id \in DOMAIN requests
    /\ requests[id].pc \in {"text", "json"}
    /\ Settle(id, CatchAnalyze(msg))

\* ResultCard has not been called
NotRendered == [throws |-> FALSE, rendered |-> FALSE]

Init ==
    /\ data = Null
    /\ view = NotRendered
    /\ loading = FALSE
    /\ result = Null
    /\ error = Null
    /\ inputType = "text"
    /\ file = NoFile
    /\ requests = << >>
    /\ fetches = << >>
    /\ calls = << >>
    /\ uncaught = {}

Next ==
    \/ \E f \in Files \cup {NoFile} : ChangeFile(f)
    \/ \E t \in InputTypes : ChangeInputType(t)
    \/ Submit
    \/ \E id \in Ids, msg \in ErrMessages : FetchRejects(id, msg)
    \/ \E id \in Ids, status \in Statuses : FetchResolves(id, status)
    \/ \E id \in Ids, text \in Texts : TextResolves(id, text)
    \/ \E id \in Ids, payload \in Payloads : JsonResolves(id, payload)
    \/ \E id \in Ids, msg \in ErrMessages : BodyRejects(id, msg)

Spec == Init /\ [][Next]_vars

\* a promise of call id (fetch, res.text() or res.json()) settles
Transport(id) ==
    \/ \E msg \in ErrMessages : FetchRejects(id, msg)
    \/ \E status \in Statuses : FetchResolves(id, status)
    \/ \E text \in Texts : TextResolves(id, text)
    \/ \E payload \in Payloads : JsonResolves(id, payload)
    \/ \E msg \in ErrMessages : BodyRejects(id, msg)

\* the transport settles every promise it handed out
FairSpec == Spec /\ \A id \in Ids : WF_vars(Transport(id))

----------------------------------------------------------------------------
\* ResultCard and SummaryGraph

\* largest |k| of the risk scores k/8 explored
ScoreRange == 12

\* risk scores: the eighths, which a double and its product with 100 hold
\* exactly
Scores == {Frac(k, 8) : k \in (0 - ScoreRange)..ScoreRange}

MetadataValues ==
    { Undefined, Null,
      Obj(Undefined, [input_type |-> Undefined]),
      Obj(Undefined, [input_type |-> Str(<<"text">>)]) }

SummaryValues == {Undefined, Null, Str(<< >>), Str(<<"All good">>)}

RiskAnalysisValues ==
    {Undefined, Null} \cup
    {Obj(Undefined, [risk_detected |-> v]) : v \in {Undefined, Bool(TRUE), Bool(FALSE)}}

AdvancedAnalysisValues ==
    {Undefined, Null} \cup
    {Obj(Undefined, [call_outcome |-> c, risk_score |-> r]) :
        c \in {Undefined, Str(<<"resolved">>)}, r \in {Undefined, Null} \cup Scores}

\* the payloads ResultCard is given
Reports ==
    {Obj(Undefined, [metadata |-> m, summary |-> s, risk_analysis |-> r, advanced_analysis |-> a]) :
        m \in MetadataValues, s \in SummaryValues,
        r \in RiskAnalysisValues, a \in AdvancedAnalysisValues}

\* {}
EmptyObject == Obj(Undefined, << >>)

\* o.f of an object o (undefined when o has no f)
Prop(o, f) == IF o.t = "object" /\ f \in DOMAIN o.rest THEN o.rest[f] ELSE Undefined

\* the default of a destructuring pattern: `f = d`
Default(v, d) == IF v = Undefined THEN d ELSE v

\* String(v)
ToStr(v) ==
    CASE v.t = "string" -> v.s
      [] v.t = "boolean" -> IF v.b THEN <<"true">> ELSE <<"false">>
      [] v.t = "undefined" -> <<"undefined">>
      [] v.t = "null" -> <<"null">>
      [] OTHER -> <<"[object Object]">>

\* {v} as a React child: null, undefined and booleans render nothing
Child(v) == IF v.t = "string" THEN v.s ELSE << >>

\* x * 100
Times100(x) == Frac(100 * x.n, x.d)

\* Math.floor in the place of Math.round
MathFloor(x) == x.n \div x.d

\* Math.round(x): floor(x + 1/2)
MathRound(x) == (2 * x.n + x.d) \div (2 * x.d)

\* SummaryGraph limiting the percentage to the axis range
SummaryGraphClamped(riskScore) ==
    LET p == MathRound(Times100(Default(riskScore, Frac(0, 1))))
        percent == IF p < 0 THEN 0 ELSE IF p > 100 THEN 100 ELSE p IN
    [bar |-> <<percent>>, min |-> 0, max |-> 100,
     title |-> <<"Risk score: ", ToString(percent), "%">>]

\* SummaryGraph({ riskScore = 0 }): the chart's data and options
SummaryGraph(riskScore) ==
    LET percent == MathRound(Times100(Default(riskScore, Frac(0, 1)))) IN
    [bar |-> <<percent>>, min |-> 0, max |-> 100,
     title |-> <<"Risk score: ", ToString(percent), "%">>]

\* a TypeError left ResultCard
Thrown == [throws |-> TRUE, rendered |-> FALSE]

\* ResultCard returned null
Nothing == [throws |-> FALSE, rendered |-> TRUE, card |-> FALSE]

\* ResultCard({ data })
ResultCard(d) ==
    IF ~Truthy(d) THEN Nothing
    ELSE LET metadata == Default(Prop(d, "metadata"), EmptyObject)
             summary == Default(Prop(d, "summary"), Str(<< >>))
             risk_analysis == Default(Prop(d, "risk_analysis"), EmptyObject)
             advanced_analysis == Default(Prop(d, "advanced_analysis"), EmptyObject)
         IN  IF \E o \in {metadata, risk_analysis, advanced_analysis} : ~HasProps(o)
             THEN Thrown
             ELSE [throws |-> FALSE, rendered |-> TRUE, card |-> TRUE,
                   input_type |-> Child(Prop(metadata, "input_type")),
                   summary |-> Child(summary),
                   risk_detected |-> ToStr(Prop(risk_analysis, "risk_detected")),
                   call_outcome |-> Child(Prop(advanced_analysis, "call_outcome")),
                   graph |-> SummaryGraph(Or(Prop(advanced_analysis, "risk_score"), Frac(0, 1)))]

\* ResultCard is called with data
Render ==
    /\ view = NotRendered
    /\ view' = ResultCard(data)
    /\ UNCHANGED <<loading, result, error, inputType, file, requests, fetches, calls,
                   uncaught, data>>

\* a report is held and ResultCard is about to be called with it
PresentInit ==
    /\ data \in Reports \cup {Num(7)}
    /\ view = NotRendered
    /\ loading = FALSE
    /\ result = data
    /\ error = Null
    /\ inputType = "text"
    /\ file = NoFile
    /\ requests = << >>
    /\ fetches = << >>
    /\ calls = << >>
    /\ uncaught = {}

PresentNext == Render

PresentSpec == PresentInit /\ [][PresentNext]_vars

----------------------------------------------------------------------------
\* vocabulary of the properties

\* s occurs in the string m
Contains(m, s) ==
    \E i \in 0..(Len(m) - Len(s)) : SubSeq(m, i + 1, i + Len(s)) = s

\* how often call id of handleSubmit invoked the callback cb
Count(cb, id) == Cardinality({i \in DOMAIN calls : calls[i].cb = cb /\ calls[i].id = id})

\* the calls of handleSubmit whose request has not settled
InFlight == {id \in DOMAIN requests : requests[id].pc \in {"fetch", "text", "json"}}

\* this step is a submit event
SubmitStep == Len(requests') = Len(requests) + 1

\* the position in calls of the first invocation of cb by call id (0: none)
IndexOf(cb, id) ==
    IF Count(cb, id) = 0 THEN 0
    ELSE CHOOSE i \in DOMAIN calls :
            /\ calls[i].cb = cb /\ calls[i].id = id
            /\ \A j \in 1..(i - 1) : ~(calls[j].cb = cb /\ calls[j].id = id)

\* the position in calls of the completion callback of call id (0: none)
CompletionIndex(id) ==
    IF IndexOf("onResult", id) # 0 THEN IndexOf("onResult", id) ELSE IndexOf("onError", id)

----------------------------------------------------------------------------
\* C1: a submit with no file selected, in any lifecycle state, invokes onError
\* with the validation message and nothing else: onStart is not invoked, no
\* fetch is issued, and the step does not leave loading true.
C1_NoFileRejected ==
    [][(SubmitStep /\ file = NoFile) =>
          /\ calls' = Append(calls, [cb |-> "onError", id |-> NextId, arg |-> ValidationMessage])
          /\ fetches' = fetches
          /\ InFlight' = InFlight
          /\ loading' = FALSE
          /\ error' = ValidationMessage]_vars

\* a validation failure that happened while an earlier request was in flight
C1_Witness ==
    /\ Len(calls) = 2
    /\ calls[1] = [cb |-> "onStart", id |-> 1, arg |-> Undefined]
    /\ calls[2] = [cb |-> "onError", id |-> 2, arg |-> ValidationMessage]
    /\ requests[2].file = NoFile
    /\ InFlight = {1}
    /\ fetches = <<1>>
    /\ loading = FALSE

\* C2: a submit with a file, from Idle, Submitting, Succeeded or Failed, leaves
\* loading = true, result = null and error = null right after the start step.
C2_StartResets ==
    [][(SubmitStep /\ file # NoFile) =>
          /\ loading' = TRUE
          /\ result' = Null
          /\ error' = Null
          /\ calls' = Append(calls, [cb |-> "onStart", id |-> NextId, arg |-> Undefined])]_vars

\* a start right after a first submission succeeded with a report
C2_Witness ==
    /\ Len(calls) = 3
    /\ calls[2].cb = "onResult" /\ calls[2].id = 1 /\ Truthy(calls[2].arg)
    /\ calls[3] = [cb |-> "onStart", id |-> 2, arg |-> Undefined]
    /\ loading = TRUE /\ result = Null /\ error = Null

\* C3 (as claimed): at most one analysis request is in flight in every
\* reachable state.
C3_AtMostOneInFlight == Cardinality(InFlight) <= 1

\* C3 (amended): submissions are not serialised; the requests in flight are
\* exactly the accepted submissions (onStart invoked) whose completion
\* callback has not been invoked yet, each with one fetch issued.
C3_InFlightAreUncompleted ==
    InFlight = {id \in DOMAIN requests :
                  Count("onStart", id) = 1 /\ Count("onResult", id) + Count("onError", id) = 0}

\* two requests in flight at once
C3_Witness ==
    /\ InFlight = {1, 2}
    /\ Count("onStart", 1) = 1 /\ Count("onStart", 2) = 1
    /\ loading = TRUE

\* this step is the completion, through onResult, of a call id of
\* handleSubmit that a later call has already followed with onStart
StaleResult(id) ==
    /\ id \in InFlight
    /\ Len(calls') = Len(calls) + 1
    /\ calls'[Len(calls')].cb = "onResult"
    /\ calls'[Len(calls')].id = id
    /\ \E j \in DOMAIN requests : j > id /\ Count("onStart", j) = 1

\* C4 (as claimed): when submission A completes successfully after a newer
\* submission B has started, A's report is discarded: the held report is left
\* as it was.
C4_StaleResultDiscarded ==
    [][\A id \in Ids : StaleResult(id) => result' = result]_vars

\* C4 (amended): when submission A completes through onResult after a newer
\* submission B has started, A's report is not discarded: it becomes the held
\* report and loading becomes false, whether or not B has completed.
C4_StaleResultStored ==
    [][\A id \in Ids : StaleResult(id) =>
          /\ result' = calls'[Len(calls')].arg
          /\ loading' = FALSE
          /\ error' = error]_vars

\* A's report is held although B started later and is still in flight
C4_Witness ==
    /\ Len(calls) = 3
    /\ calls[1].cb = "onStart" /\ calls[1].id = 1
    /\ calls[2].cb = "onStart" /\ calls[2].id = 2
    /\ calls[3].cb = "onResult" /\ calls[3].id = 1
    /\ result = calls[3].arg /\ Truthy(result)
    /\ InFlight = {2}
    /\ loading = FALSE

\* calls 1 and 2 of handleSubmit overlapped (2 started before 1 completed)
\* and both have completed
BothCompletedOverlapping ==
    /\ Len(requests) >= 2
    /\ requests[1].pc = "done" /\ requests[2].pc = "done"
    /\ IndexOf("onStart", 2) < CompletionIndex(1)

\* the state that the completion callback c alone determines
StateOf(c) ==
    IF c.cb = "onResult"
    THEN [loading |-> FALSE, result |-> c.arg, error |-> Null]
    ELSE [loading |-> FALSE, result |-> Null, error |-> c.arg]

\* C5: for overlapping submissions A then B, once both have completed the
\* held report and held error are those of the completion that happened last
\* and nothing of the other's outcome remains.
C5_LastCompletionDetermines ==
    (BothCompletedOverlapping /\ calls[Len(calls)].cb \in {"onResult", "onError"})
        => AppState = StateOf(calls[Len(calls)])

\* C6: a report and an error are never held at the same time.
C6_NeverReportAndError == ~(result # Null /\ error # Null)

\* the last callback invoked after this step
LastCall == calls'[Len(calls')]

\* C7: whenever the response is ok and its body parses, the submission
\* completes through onResult with exactly the parsed payload, which becomes
\* the held report - for every payload, also one with an `error` property or
\* one that is null or not an object.
C7_ParsedPayloadIsResult ==
    [][\A id \in Ids, payload \in Payloads : JsonResolves(id, payload) =>
          /\ calls' = Append(calls, [cb |-> "onResult", id |-> id, arg |-> payload])
          /\ result' = payload
          /\ loading' = FALSE]_vars

\* no accepted call of handleSubmit other than id was pending at any time
\* since id started
NoOverlap(id) ==
    \A j \in DOMAIN requests :
        (j # id /\ Count("onStart", j) = 1) =>
            (CompletionIndex(j) # 0 /\ CompletionIndex(j) < IndexOf("onStart", id))

\* C8: a response with a non-success status s whose body reads as the text t
\* completes through onError (not onResult) with one string that contains s
\* and t; with no overlapping submission the state is then Failed with that
\* message and no held report.
C8_ServerErrorMessage ==
    [][\A id \in Ids, text \in Texts : TextResolves(id, text) =>
          /\ Len(calls') = Len(calls) + 1
          /\ LastCall.cb = "onError" /\ LastCall.id = id
          /\ LastCall.arg.t = "string"
          /\ Contains(LastCall.arg.s, StatusStr(requests[id].status))
          /\ Contains(LastCall.arg.s, text)
          /\ ~Ok(requests[id].status)
          /\ error' = LastCall.arg
          /\ loading' = FALSE
          /\ NoOverlap(id) => result' = Null]_vars

\* status 500 with body "internal error", alone: Failed with both in the message
C8_Witness ==
    /\ Len(requests) = 1
    /\ requests[1].pc = "done"
    /\ Len(calls) = 2 /\ calls[2].cb = "onError"
    /\ error = calls[2].arg /\ error.t = "string"
    /\ Contains(error.s, <<"500">>) /\ Contains(error.s, <<"internal error">>)
    /\ result = Null /\ loading = FALSE

\* a non-empty string
NonEmptyString(v) == v.t = "string" /\ v.s # << >>

\* this step invokes exactly one callback, onError, for call id, with a
\* non-empty string
OneErrorCall(id) ==
    /\ Len(calls') = Len(calls) + 1
    /\ SubSeq(calls', 1, Len(calls)) = calls
    /\ LastCall.cb = "onError" /\ LastCall.id = id
    /\ NonEmptyString(LastCall.arg)

\* per call of handleSubmit: one onError and nothing else after a validation
\* failure, exactly one of onResult / onError once the request has settled,
\* none before; and no call of handleSubmit has rejected
CallbackDiscipline ==
    /\ uncaught = {}
    /\ \A id \in DOMAIN requests :
          LET done == Count("onResult", id) + Count("onError", id) IN
          CASE requests[id].pc = "invalid" ->
                  Count("onError", id) = 1 /\ done = 1 /\ Count("onStart", id) = 0
            [] requests[id].pc = "done" -> done = 1 /\ Count("onStart", id) = 1
            [] OTHER -> done = 0 /\ Count("onStart", id) = 1

\* C9: a validation failure, a transport failure, a non-success status and an
\* unparseable body each end in exactly one onError with a non-empty string
\* and no onResult for that submission; nothing escapes handleSubmit; and
\* every settled submit has invoked exactly one of onResult / onError.
C9_ErrorsFunnelToOnError ==
    /\ []CallbackDiscipline
    /\ [][/\ (SubmitStep /\ file = NoFile) => OneErrorCall(NextId)
          /\ \A id \in Ids :
               /\ (\E msg \in ErrMessages : FetchRejects(id, msg)) => OneErrorCall(id)
               /\ (\E msg \in ErrMessages : BodyRejects(id, msg)) => OneErrorCall(id)
               /\ (\E text \in Texts : TextResolves(id, text)) => OneErrorCall(id)]_vars

\* a body that failed to parse, the error carrying an empty message
C9_Witness ==
    /\ Len(requests) = 1
    /\ requests[1].pc = "done"
    /\ calls = <<[cb |-> "onStart", id |-> 1, arg |-> Undefined],
                 [cb |-> "onError", id |-> 1, arg |-> Str(<<"Network error">>)]>>
    /\ error = Str(<<"Network error">>) /\ loading = FALSE /\ result = Null

\* the calls of handleSubmit that passed the file check
Accepted == {id \in DOMAIN requests : requests[id].file # NoFile}

\* C10: the fetch calls issued are one per submit that passed validation, and
\* only a submit issues one: a failed request is never sent again.
C10_OneRequestPerSubmit ==
    /\ [](/\ Len(fetches) = Cardinality(Accepted)
          /\ \A id \in Accepted :
                Cardinality({i \in DOMAIN fetches : fetches[i] = id}) = 1)
    /\ [][fetches' # fetches => (SubmitStep /\ file # NoFile)]_vars

\* one request failed, one submit was rejected: one fetch in all
C10_Witness ==
    /\ Len(requests) = 2
    /\ requests[1].pc = "done" /\ Count("onError", 1) = 1
    /\ requests[2].pc = "invalid"
    /\ fetches = <<1>>

----------------------------------------------------------------------------
\* the lifecycle state Idle: not loading, no held report, no held error
Idle == ~loading /\ result = Null /\ error = Null

\* C11: once a submission has been attempted (with or without a file), the
\* lifecycle state is never Idle again, whatever the server returns.
C11_NeverIdleAgain ==
    /\ [](Len(requests) > 0 => ~Idle)
    /\ [][~Idle => ~Idle']_vars

\* a settled submission whose payload, the number 0, is held as the report
C11_Witness ==
    /\ Len(requests) = 1 /\ requests[1].pc = "done"
    /\ calls[Len(calls)] = [cb |-> "onResult", id |-> 1, arg |-> Num(0)]
    /\ ~loading /\ result = Num(0) /\ error = Null

----------------------------------------------------------------------------
\* the section f of the report given to ResultCard
Section(f) == Prop(data, f)

\* the risk score SummaryGraph is to show: 0 unless the report has a number
ShownScore ==
    LET a == Section("advanced_analysis")
        r == IF a.t = "object" THEN Prop(a, "risk_score") ELSE Undefined
    IN  IF r.t = "number" THEN r ELSE Frac(0, 1)

\* the report has no risk score
ScoreMissing ==
    \/ Section("advanced_analysis") = Undefined
    \/ /\ Section("advanced_analysis").t = "object"
       /\ Prop(Section("advanced_analysis"), "risk_score") = Undefined

\* the report has no risk_detected flag
FlagMissing ==
    \/ Section("risk_analysis") = Undefined
    \/ /\ Section("risk_analysis").t = "object"
       /\ Prop(Section("risk_analysis"), "risk_detected") = Undefined

\* ResultCard returned a card
CardShown == view.rendered /\ view.card

\* p is x = n / d rounded to the nearest integer, halves upwards
IsRoundHalfUp(p, n, d) == (2 * p - 1) * d <= 2 * n /\ 2 * n < (2 * p + 1) * d

\* C12: whichever optional fields of a successful payload are missing or
\* null, presenting the report never throws.
C12_PresentNeverThrows == ~view.throws

\* C13: with optional fields missing, a missing summary is shown as the empty
\* string, a missing risk score as 0 percent and a missing risk_detected flag
\* as the text "false".
C13_MissingDefaults ==
    CardShown =>
        /\ Section("summary") = Undefined => view.summary = << >>
        /\ ScoreMissing => view.graph.bar = <<0>>
        /\ FlagMissing => view.risk_detected = <<"false">>

\* C14: the percentage shown is the risk score times 100 rounded to the
\* nearest integer, halves upwards, for every score; 0.5 gives 50 and a
\* missing score gives 0.
C14_RoundHalfUp ==
    CardShown =>
        /\ Len(view.graph.bar) = 1
        /\ IsRoundHalfUp(view.graph.bar[1], 100 * ShownScore.n, ShownScore.d)
        /\ view.graph.title = <<"Risk score: ", ToString(view.graph.bar[1]), "%">>
        /\ ShownScore = Frac(4, 8) => view.graph.bar = <<50>>
        /\ ScoreMissing => view.graph.bar = <<0>>

\* the score 0.125, a tie, is shown as 13
C14_Witness ==
    /\ CardShown
    /\ ShownScore = Frac(1, 8)
    /\ view.graph.bar = <<13>>

\* the risk score of the report lies outside [0, 1]
OutOfRange == ShownScore.n < 0 \/ ShownScore.n > ShownScore.d

\* C15: a risk score outside [0, 1] is shown as it is, not clamped: the
\* percentage is below 0 or above 100, and the score does not keep the
\* report from being shown (only a null section does).
C15_NoClamping ==
    (view # NotRendered /\ OutOfRange) =>
        /\ CardShown \/ Section("metadata") = Null \/ Section("risk_analysis") = Null
        /\ CardShown =>
             /\ IsRoundHalfUp(view.graph.bar[1], 100 * ShownScore.n, ShownScore.d)
             /\ view.graph.bar[1] < 0 \/ view.graph.bar[1] > 100
             /\ view.graph.title = <<"Risk score: ", ToString(view.graph.bar[1]), "%">>

\* the score 1.125 is shown as 113 percent
C15_Witness ==
    /\ CardShown
    /\ ShownScore = Frac(9, 8)
    /\ view.graph.bar = <<113>>
    /\ view.graph.title = <<"Risk score: ", "113", "%">>

----------------------------------------------------------------------------
\* the number of completion callbacks call id has invoked
Completions(id) == Count("onResult", id) + Count("onError", id)

\* this step invokes a completion callback for the accepted call id
CompletionStep(id) ==
    /\ Count("onStart", id) = 1
    /\ Completions(id)' # Completions(id)

\* C16: with every promise settling, each accepted submission's onStart is
\* followed by exactly one completion callback of that submission, which is
\* applied to loading / result / error whatever was submitted in between;
\* and a completion happens only in the step in which that submission's own
\* request settles (no timeout, no cancellation).
C16_EventualCompletion ==
    /\ []<>(\A id \in DOMAIN requests : Count("onStart", id) = 1 => Completions(id) = 1)
    /\ [](\A id \in DOMAIN requests : Completions(id) <= 1)
    /\ [][\A id \in Ids : CompletionStep(id) =>
            /\ id \in InFlight /\ requests'[id].pc = "done"
            /\ calls' = Append(calls, LastCall)
            /\ LastCall.id = id /\ LastCall.cb \in {"onResult", "onError"}
            /\ loading' = FALSE
            /\ LastCall.cb = "onResult" => result' = LastCall.arg
            /\ LastCall.cb = "onError" => error' = LastCall.arg]_vars

\* the first submission's failure is applied although a second one has
\* started and is still in flight
C16_Witness ==
    /\ Len(calls) = 3
    /\ calls[1].cb = "onStart" /\ calls[1].id = 1
    /\ calls[2].cb = "onStart" /\ calls[2].id = 2
    /\ calls[3].cb = "onError" /\ calls[3].id = 1
    /\ error = calls[3].arg /\ loading = FALSE
    /\ InFlight = {2}

----------------------------------------------------------------------------
\* C17: while loading is true no report and no error is held, under every
\* interleaving of submissions, validation failures and completions.
C17_LoadingExcludesBoth == loading => (result = Null /\ error = Null)

\* loading again after a report and then an error had been held
C17_Witness ==
    /\ loading /\ result = Null /\ error = Null
    /\ Len(calls) = 3
    /\ calls[1].cb = "onStart" /\ calls[1].id = 1
    /\ calls[2].cb \in {"onResult", "onError"} /\ calls[2].id = 1
    /\ calls[3].cb = "onStart" /\ calls[3].id = 2

\* C18: whenever at least one analysis request is in flight, loading is true -
\* also after an overlapping submission has completed or a validation failure
\* has occurred meanwhile.
C18_InFlightImpliesLoading == InFlight # {} => loading

\* this step invokes exactly one callback, cb
CallbackStep(cb) ==
    /\ Len(calls') = Len(calls) + 1
    /\ SubSeq(calls', 1, Len(calls)) = calls
    /\ LastCall.cb = cb

\* the requests other than that of the callback just invoked are untouched
OthersUntouched ==
    \A j \in DOMAIN requests : j # LastCall.id => requests'[j] = requests[j]

\* C19: an onError step (validation failure or failed request) changes only
\* loading and error and leaves the held report as it was; an onResult step
\* changes only loading and the held report and leaves the held error as it
\* was; neither touches another request in flight.
C19_CompletionFrame ==
    [][/\ CallbackStep("onError") =>
            /\ result' = result
            /\ loading' = FALSE /\ error' = LastCall.arg
            /\ OthersUntouched
            /\ UNCHANGED <<formVars, fetches>>
       /\ CallbackStep("onResult") =>
            /\ error' = error
            /\ loading' = FALSE /\ result' = LastCall.arg
            /\ OthersUntouched
            /\ UNCHANGED <<formVars, fetches>>]_vars

\* a validation failure after a success left the held report in place
C19_Witness ==
    /\ Len(calls) = 3
    /\ calls[2].cb = "onResult" /\ calls[2].id = 1
    /\ calls[3] = [cb |-> "onError", id |-> 2, arg |-> ValidationMessage]
    /\ result = calls[2].arg /\ result # Null
    /\ error = ValidationMessage /\ loading = FALSE

====
